---- MODULE Spec2Model ----
(***************************************************************************)
(* Model of src/app.py: the PDF retrieval-and-analysis pipeline.           *)
(*                                                                         *)
(*   main                    the Streamlit page script (Presenter)        *)
(*   extract_text_from_pdf   HTTP GET, temporary file, PDF load, join     *)
(*   analyze_medical_report  remote generation call with the retry loop   *)
(*   fallback_analysis       the deterministic canned summary             *)
(*                                                                         *)
(* A Python str is modelled as a sequence of one-character strings, the    *)
(* strings a function returns from fixed text as a sequence of text        *)
(* pieces, and an optional value (None or a str) as a record.              *)
(***************************************************************************)
EXTENDS Integers, Sequences, FiniteSets, TLC

\* ---------------------------------------------------------------- bounds
\* Longest text of one parsed page, in characters.
MaxPageLen == 2
\* Largest number of pages the loader returns.
MaxPages == 2
\* Number of button triggers (script reruns) explored on one page.
MaxRuns == 2
\* Longest content handed directly to fallback_analysis (SpecFallback).
MaxContentLen == 3

\* ------------------------------------------------------ program constants
MaxRetriesMutFour == 3 + 1
MAX_RETRIES == 3
RETRY_DELAY == 2

\* ------------------------------------------------------------ input sets
\* Characters a page text is made of, and the separator the join adds.
PageChars == {"A", "B", " "}
ContentChars == PageChars \cup {"\n"}
\* HTTP status codes the GET can answer with.
Statuses == {200, 204, 304, 404, 500}
\* Texts the remote model can answer with.
ResponseTexts == {"r1", "r2"}
\* Keys that can be present in the page's query string.
QueryKeys == {"pdf_link", "other"}
ContentTypes == {"text", "image"}

RECURSIVE SeqsUpTo(_, _)
SeqsUpTo(S, n) ==
    IF n = 0 THEN {<<>>}
    ELSE LET shorter == SeqsUpTo(S, n - 1)
         IN  shorter \cup {Append(s, x) : s \in {t \in shorter : Len(t) = n - 1}, x \in S}

PageTexts == SeqsUpTo(PageChars, MaxPageLen)
LoaderResults == SeqsUpTo(PageTexts, MaxPages)
Contents == SeqsUpTo(ContentChars, MaxContentLen)

\* ------------------------------------------------------- optional values
None == [isNone |-> TRUE, value |-> <<>>]
Str(s) == [isNone |-> FALSE, value |-> s]

\* Python truth value of an optional str: None and "" are false.
TruthyMutNoneOnly(v) == ~v.isNone
Truthy(v) == ~v.isNone /\ v.value # <<>>

\* ---------------------------------------------------------- pure helpers
\* "\n".join([doc.page_content for doc in docs])
RECURSIVE JoinPagesMutTrailing(_)
JoinPagesMutTrailing(docs) ==
    IF docs = <<>> THEN <<>>
    ELSE Head(docs) \o <<"\n">> \o JoinPagesMutTrailing(Tail(docs))

RECURSIVE JoinPages(_)
JoinPages(docs) ==
    IF docs = <<>> THEN <<>>
    ELSE IF Len(docs) = 1 THEN Head(docs)
    ELSE Head(docs) \o <<"\n">> \o JoinPages(Tail(docs))

\* The tail of extract_text_from_pdf: docs is always a list here.
ExtractResult(docs) == IF docs # <<>> THEN Str(JoinPages(docs)) ELSE None

\* str.split() with no argument: runs of whitespace separate the words,
\* leading and trailing whitespace is dropped.
IsSpace(c) == c \in {" ", "\n"}

RECURSIVE WordEnd(_, _)
WordEnd(s, i) ==
    IF i > Len(s) \/ IsSpace(s[i]) THEN i - 1 ELSE WordEnd(s, i + 1)

RECURSIVE SplitMutEverySpace(_)
SplitMutEverySpace(s) ==
    IF s = <<>> THEN <<>>
    ELSE IF IsSpace(Head(s)) THEN <<<<>>>> \o SplitMutEverySpace(Tail(s))
    ELSE LET e == WordEnd(s, 1)
         IN  <<SubSeq(s, 1, e)>> \o SplitMutEverySpace(SubSeq(s, e + 1, Len(s)))

RECURSIVE Split(_)
Split(s) ==
    IF s = <<>> THEN <<>>
    ELSE IF IsSpace(Head(s)) THEN Split(Tail(s))
    ELSE LET e == WordEnd(s, 1)
         IN  <<SubSeq(s, 1, e)>> \o Split(SubSeq(s, e + 1, Len(s)))

\* The fixed texts of fallback_analysis.
IMAGE_APOLOGY == "Unable to analyze the image due to API issues. Please try again later or consult a medical professional for accurate interpretation."
FALLBACK_HEAD == "Fallback Analysis: 1. Document Type: Text-based medical report 2. Word Count: Approximately "
FALLBACK_TAIL == " words 3. Content: ... 4. Recommendation: ... 5. Note: ..."

\* The value fallback_analysis returns.
fallback_analysis(content, ctype) ==
    IF ctype = "image" THEN <<IMAGE_APOLOGY>>
    ELSE LET word_count == Len(Split(content))
         IN  <<FALLBACK_HEAD, ToString(word_count), FALLBACK_TAIL>>

\* response.status_code != 200
DownloadFailedMutOnly4xx5xx(status) == status >= 400
DownloadFailed(status) == status # 200

\* 'pdf_link' in query_params
HasPdfLinkMutAlways(qp) == TRUE
HasPdfLink(qp) == "pdf_link" \in qp

\* attempt < MAX_RETRIES - 1, the test in the except branch
RetryAgainMutOffByOne(att) == att < MAX_RETRIES
RetryAgainMutNever(att) == FALSE
RetryAgain(att) == att < MAX_RETRIES - 1

\* ------------------------------------------------------------------ state
VARIABLES
    query_params,   \* keys of st.query_params for this page
    ui,             \* Presenter state
    pc,             \* position of the running script
    runs,           \* number of triggers so far
    status,         \* response.status_code of this run, 0 before the GET
    tmp_files,      \* names of the temporary files that exist on disk
    tmp_file_path,  \* name of this run's temporary file, 0 if none
    docs,           \* loader.load() result of this run
    pdf_text,       \* value extract_text_from_pdf returned / content
    content_type,   \* content_type argument of the Analyzer
    attempt,        \* loop variable of analyze_medical_report
    analysis,       \* value analyze_medical_report returned
    log             \* calls and messages of this run, in order

vars == <<query_params, ui, pc, runs, status, tmp_files, tmp_file_path, docs,
          pdf_text, content_type, attempt, analysis, log>>

Ev(name, n, text) == [ev |-> name, n |-> n, text |-> text]

Init ==
    /\ query_params \in SUBSET QueryKeys
    /\ ui = "Idle"
    /\ pc = "main"
    /\ runs = 0
    /\ status = 0
    /\ tmp_files = {}
    /\ tmp_file_path = 0
    /\ docs = <<>>
    /\ pdf_text = None
    /\ content_type = "none"
    /\ attempt = 0
    /\ analysis = None
    /\ log = <<>>

\* ---------------------------------------------------------------- main()
\* The script run of a page load: the button is not pressed.
Load ==
    /\ ui = "Idle" /\ pc = "main"
    /\ IF HasPdfLink(query_params)
       THEN /\ ui' = "AwaitingTrigger"
            /\ log' = log
       ELSE /\ ui' = "Usage"
            /\ log' = log \o <<Ev("st.info usage", 0, ""), Ev("st.markdown how to use", 0, "")>>
    /\ pc' = "idle"
    /\ UNCHANGED <<query_params, runs, status, tmp_files, tmp_file_path, docs,
                   pdf_text, content_type, attempt, analysis>>

\* The button is pressed: the script reruns and enters the spinner block.
Trigger ==
    /\ ui \in {"AwaitingTrigger", "DoneSuccess", "DoneError", "Crashed"}
    /\ pc = "idle"
    /\ HasPdfLink(query_params)
    /\ runs < MaxRuns
    /\ runs' = runs + 1
    /\ ui' = "Running"
    /\ pc' = "get"
    /\ status' = 0
    /\ tmp_file_path' = 0
    /\ docs' = <<>>
    /\ pdf_text' = None
    /\ content_type' = "none"
    /\ attempt' = 0
    /\ analysis' = None
    /\ log' = <<>>
    /\ UNCHANGED <<query_params, tmp_files>>

\* ------------------------------------------------ extract_text_from_pdf()
\* requests.get answers with a status; on 200 the bytes go to a new
\* temporary file that stays on disk (delete=False).
Get ==
    /\ pc = "get"
    /\ \E s \in Statuses :
        /\ status' = s
        /\ IF DownloadFailed(s)
           THEN /\ log' = log \o <<Ev("requests.get", s, ""), Ev("st.error download", 0, "")>>
                /\ pdf_text' = None
                /\ pc' = "check"
                /\ UNCHANGED <<tmp_files, tmp_file_path>>
           ELSE /\ log' = log \o <<Ev("requests.get", s, "")>>
                /\ tmp_file_path' = runs
                /\ tmp_files' = tmp_files \cup {runs}
                /\ pc' = "load"
                /\ UNCHANGED pdf_text
    /\ UNCHANGED <<query_params, ui, runs, docs, content_type, attempt, analysis>>

\* requests.get raises (no connection): nothing catches it.
GetRaises ==
    /\ pc = "get"
    /\ log' = log \o <<Ev("requests.get raises", 0, "")>>
    /\ ui' = "Crashed"
    /\ pc' = "idle"
    /\ UNCHANGED <<query_params, runs, status, tmp_files, tmp_file_path, docs,
                   pdf_text, content_type, attempt, analysis>>

\* loader.load() returns the pages; the file is unlinked and the page texts
\* are joined.
LoadOk ==
    /\ pc = "load"
    /\ \E d \in LoaderResults :
        /\ docs' = d
        /\ pdf_text' = ExtractResult(d)
    /\ tmp_files' = tmp_files \ {tmp_file_path}
    /\ log' = log \o <<Ev("loader.load", 0, ""), Ev("os.unlink", tmp_file_path, "")>>
    /\ pc' = "check"
    /\ UNCHANGED <<query_params, ui, runs, status, tmp_file_path, content_type,
                   attempt, analysis>>

\* loader.load() raises (corrupt PDF): the exception leaves
\* extract_text_from_pdf and main before os.unlink is reached.
LoadRaises ==
    /\ pc = "load"
    /\ log' = log \o <<Ev("loader.load raises", 0, "")>>
    /\ ui' = "Crashed"
    /\ pc' = "idle"
    /\ UNCHANGED <<query_params, runs, status, tmp_files, tmp_file_path, docs,
                   pdf_text, content_type, attempt, analysis>>

\* main: if pdf_text: ... else: st.error(...)
CheckText ==
    /\ pc = "check"
    /\ IF Truthy(pdf_text)
       THEN /\ content_type' = "text"
            /\ attempt' = 0
            /\ pc' = "generate"
            /\ UNCHANGED <<ui, log>>
       ELSE /\ log' = log \o <<Ev("st.error extract", 0, "")>>
            /\ ui' = "DoneError"
            /\ pc' = "idle"
            /\ UNCHANGED <<content_type, attempt>>
    /\ UNCHANGED <<query_params, runs, status, tmp_files, tmp_file_path, docs,
                   pdf_text, analysis>>

\* ----------------------------------------------- analyze_medical_report()
\* model.generate_content(...) answers and response.text is returned.
GenerateOk ==
    /\ pc = "generate"
    /\ attempt < MAX_RETRIES
    /\ \E t \in ResponseTexts :
        /\ log' = Append(log, Ev("generate ok", attempt + 1, t))
        /\ analysis' = Str(<<t>>)
    /\ pc' = "display"
    /\ UNCHANGED <<query_params, ui, runs, status, tmp_files, tmp_file_path, docs,
                   pdf_text, content_type, attempt>>

\* The call raises GoogleAPIError: warn and go on to sleep, or report the
\* failure and go on to the fallback.
GenerateApiError ==
    /\ pc = "generate"
    /\ attempt < MAX_RETRIES
    /\ IF RetryAgain(attempt)
       THEN /\ log' = log \o <<Ev("generate GoogleAPIError", attempt + 1, ""),
                               Ev("st.warning retrying", attempt + 1, "")>>
            /\ pc' = "sleep"
       ELSE /\ log' = log \o <<Ev("generate GoogleAPIError", attempt + 1, ""),
                               Ev("st.error failed", MAX_RETRIES, "")>>
            /\ pc' = "fallback"
    /\ UNCHANGED <<query_params, ui, runs, status, tmp_files, tmp_file_path, docs,
                   pdf_text, content_type, attempt, analysis>>

\* The call, or response.text, raises an exception that is not a
\* GoogleAPIError: the except clause does not match and the exception
\* leaves analyze_medical_report and main.
GenerateOtherError ==
    /\ pc = "generate"
    /\ attempt < MAX_RETRIES
    /\ log' = Append(log, Ev("generate other exception", attempt + 1, ""))
    /\ ui' = "Crashed"
    /\ pc' = "idle"
    /\ UNCHANGED <<query_params, runs, status, tmp_files, tmp_file_path, docs,
                   pdf_text, content_type, attempt, analysis>>

\* time.sleep(RETRY_DELAY), then the next iteration of the for loop; when
\* range(MAX_RETRIES) is used up the function falls off its end.
Sleep ==
    /\ pc = "sleep"
    /\ log' = Append(log, Ev("time.sleep", RETRY_DELAY, ""))
    /\ attempt' = attempt + 1
    /\ IF attempt + 1 < MAX_RETRIES
       THEN /\ pc' = "generate"
            /\ UNCHANGED analysis
       ELSE /\ pc' = "display"
            /\ analysis' = None
    /\ UNCHANGED <<query_params, ui, runs, status, tmp_files, tmp_file_path, docs,
                   pdf_text, content_type>>

\* return fallback_analysis(content, content_type)
Fallback ==
    /\ pc = "fallback"
    /\ log' = log \o <<Ev("fallback_analysis", 0, ""), Ev("st.warning fallback", 0, "")>>
    /\ analysis' = Str(fallback_analysis(pdf_text.value, content_type))
    /\ pc' = "display"
    /\ UNCHANGED <<query_params, ui, runs, status, tmp_files, tmp_file_path, docs,
                   pdf_text, content_type, attempt>>

\* main: st.subheader(...); st.write(analysis)
Display ==
    /\ pc = "display"
    /\ ui = "Running"
    /\ log' = log \o <<Ev("st.subheader results", 0, ""), Ev("st.write analysis", 0, "")>>
    /\ ui' = "DoneSuccess"
    /\ pc' = "idle"
    /\ UNCHANGED <<query_params, runs, status, tmp_files, tmp_file_path, docs,
                   pdf_text, content_type, attempt, analysis>>

Next ==
    \/ Load
    \/ Trigger
    \/ Get
    \/ GetRaises
    \/ LoadOk
    \/ LoadRaises
    \/ CheckText
    \/ GenerateOk
    \/ GenerateApiError
    \/ GenerateOtherError
    \/ Sleep
    \/ Fallback
    \/ Display

Spec == Init /\ [][Next]_vars

\* ------------------------------------------- fallback_analysis on its own
\* fallback_analysis called with any content and either content kind.
InitFallback ==
    /\ query_params = {"pdf_link"}
    /\ ui = "Direct"
    /\ pc = "fallback"
    /\ runs = 0
    /\ status = 0
    /\ tmp_files = {}
    /\ tmp_file_path = 0
    /\ docs = <<>>
    /\ pdf_text \in {Str(c) : c \in Contents}
    /\ content_type \in ContentTypes
    /\ attempt = MAX_RETRIES - 1
    /\ analysis = None
    /\ log = <<>>

NextFallback == Fallback

SpecFallback == InitFallback /\ [][NextFallback]_vars

\* ------------------------------------------------------ reading the log
LogIdx == DOMAIN log
GenerateEvents == {"generate ok", "generate GoogleAPIError", "generate other exception"}
IdxOf(names) == {i \in LogIdx : log[i].ev \in names}
NumCalls == Cardinality(IdxOf(GenerateEvents))
NumApiErrors == Cardinality(IdxOf({"generate GoogleAPIError"}))
NumFallbacks == Cardinality(IdxOf({"fallback_analysis"}))
NumSleeps == Cardinality(IdxOf({"time.sleep"}))
NumGets == Cardinality(IdxOf({"requests.get", "requests.get raises"}))
Logged(name) == IdxOf({name}) # {}

\* C1: when the remote call has failed with GoogleAPIError on 3 attempts of
\* one Analyzer invocation, exactly 3 remote calls were made, no 4th one
\* is ever made, and the fallback is the next thing to run and runs once.
C1_ThreeFailuresThenOneFallback ==
    /\ NumCalls <= 3
    /\ NumApiErrors = 3 =>
          /\ NumCalls = 3
          /\ \/ pc = "fallback" /\ NumFallbacks = 0
             \/ pc \in {"display", "idle"} /\ NumFallbacks = 1

C1_Witness == ui = "DoneSuccess" /\ NumApiErrors = 3 /\ NumCalls = 3 /\ NumFallbacks = 1

\* C2: in a run whose GET answered with a non-2xx status the Fetcher
\* returns None, the download error is shown, the run is on its way to or
\* in Done-Error, and neither the remote call nor the fallback has run.
C2_BadStatusEndsInError ==
    (status # 0 /\ ~(status \in 200..299)) =>
        /\ pdf_text = None
        /\ Logged("st.error download")
        /\ \/ ui = "Running" /\ pc = "check"
           \/ ui = "DoneError" /\ pc = "idle" /\ Logged("st.error extract")
        /\ NumCalls = 0
        /\ NumFallbacks = 0
        /\ content_type = "none"
        /\ analysis = None
        /\ tmp_files \cap {tmp_file_path, runs} = {}

C2_Witness == status = 404 /\ ui = "DoneError" /\ NumCalls = 0

\* C3: with no pdf_link in the query string the page never leaves Idle
\* except to show the usage instructions: no run is triggered, no GET and
\* no remote call is made.
C3_NoParamNoNetwork ==
    ("pdf_link" \notin query_params) =>
        /\ ui \in {"Idle", "Usage"}
        /\ ui = "Usage" <=> pc = "idle"
        /\ ui = "Usage" => Logged("st.info usage") /\ Logged("st.markdown how to use")
        /\ runs = 0
        /\ NumGets = 0
        /\ NumCalls = 0
        /\ NumFallbacks = 0
        /\ tmp_files = {}

C3_Witness == "pdf_link" \notin query_params /\ ui = "Usage" /\ Logged("st.info usage")

\* C4 (as claimed): every Analyzer invocation that has ended returned a
\* string to main, whatever the outcomes of the remote call were.
C4_AnalyzerAlwaysReturnsString ==
    (content_type = "text" /\ pc \in {"display", "idle"}) =>
        ~analysis.isNone /\ ui # "Crashed"

\* C5 (as claimed): no temporary file of the Extractor exists once the
\* extraction call has ended, by return or by exception.
C5_TempFileAlwaysDeleted ==
    pc # "load" => tmp_files = {}

\* C6 (as claimed): a run that has ended is in Done-Success exactly when
\* the download succeeded and the Extractor returned a non-absent text.
C6_SuccessWheneverTextNotAbsent ==
    ui \in {"DoneSuccess", "DoneError"} =>
        (ui = "DoneSuccess" <=> (status = 200 /\ ~pdf_text.isNone))

\* C6 (amended): the Analyzer is invoked exactly when the Extractor returned
\* a non-empty text, and a run ends in Done-Success only then, with the
\* Analyzer's string displayed; a run ends in Done-Error exactly when the
\* download failed or the Extractor returned None or the empty string, and
\* then the Analyzer has not been invoked.
C6_SuccessIffTextNonEmpty ==
    LET nonEmpty == ~pdf_text.isNone /\ Len(pdf_text.value) > 0
    IN  /\ ui = "DoneSuccess" =>
              /\ status = 200 /\ nonEmpty
              /\ content_type = "text"
              /\ ~analysis.isNone
              /\ Logged("st.write analysis")
        /\ ui = "DoneError" =>
              /\ status # 200 \/ pdf_text.isNone \/ pdf_text.value = <<>>
              /\ content_type = "none" /\ NumCalls = 0 /\ NumFallbacks = 0
              /\ Logged("st.error extract")
        /\ (ui \in {"Running", "DoneSuccess", "DoneError", "Crashed"} /\ Logged("os.unlink")
               /\ pc # "check") =>
              (nonEmpty <=> content_type = "text") /\ (nonEmpty <=> ui # "DoneError")
        /\ (nonEmpty /\ ~analysis.isNone /\ pc = "idle") => ui = "DoneSuccess"

C6_Witness ==
    /\ ui = "DoneError" /\ status = 200
    /\ docs = <<<<>>>> /\ pdf_text = Str(<<>>)
    /\ NumCalls = 0

\* C7: for a non-empty list of pages the Extractor returns the page texts
\* in order, each at its place, with exactly one newline between two
\* consecutive pages and nothing before the first or after the last page;
\* for an empty list it returns None.
RECURSIVE PageStart(_, _)
PageStart(d, k) == IF k = 1 THEN 1 ELSE PageStart(d, k - 1) + Len(d[k - 1]) + 1

C7_JoinedInOrderByNewline ==
    Logged("loader.load") =>
        /\ docs = <<>> => pdf_text = None
        /\ docs # <<>> =>
              LET n == Len(docs)
                  t == pdf_text.value
              IN  /\ ~pdf_text.isNone
                  /\ Len(t) = PageStart(docs, n) + Len(docs[n]) - 1
                  /\ \A k \in 1..n :
                        SubSeq(t, PageStart(docs, k), PageStart(docs, k) + Len(docs[k]) - 1) = docs[k]
                  /\ \A k \in 2..n : t[PageStart(docs, k) - 1] = "\n"
        /\ Len(docs) = 1 => pdf_text.value = docs[1]
        /\ docs = <<<<"A">>, <<"B">>>> => pdf_text.value = <<"A", "\n", "B">>

C7_Witness ==
    /\ Logged("loader.load")
    /\ docs = <<<<"A">>, <<"B">>>>
    /\ pdf_text = Str(<<"A", "\n", "B">>)

\* C8: for content kind "text" the fallback returns the fixed head, the
\* number of maximal runs of non-whitespace characters of the content, and
\* the fixed tail: only the count depends on the content.
WordStarts(s) == {i \in DOMAIN s : ~IsSpace(s[i]) /\ (i = 1 \/ IsSpace(s[i - 1]))}
OneTwoThreeFour ==
    <<"o", "n", "e", " ", "t", "w", "o", " ", "t", "h", "r", "e", "e", " ", "f", "o", "u", "r">>

C8_WordCountIsTokenCount ==
    /\ (pc = "display" /\ content_type = "text") =>
          /\ ~analysis.isNone
          /\ analysis.value =
                <<FALLBACK_HEAD, ToString(Cardinality(WordStarts(pdf_text.value))), FALLBACK_TAIL>>
          /\ (\A i \in DOMAIN pdf_text.value : IsSpace(pdf_text.value[i])) => analysis.value[2] = "0"
    /\ fallback_analysis(OneTwoThreeFour, "text")[2] = "4"

C8_Witness ==
    /\ pc = "display" /\ content_type = "text"
    /\ pdf_text.value = <<"A", " ", "B">>
    /\ analysis.value[2] = "2"

\* C9: every wait lasts 2 seconds and directly follows the failure (and
\* its warning) of attempt 1 or 2; such a failure is followed by one wait
\* and then by the call of the next attempt; nothing waits after a success
\* or after the failure of attempt 3; a run waits at most twice.
C9_OneWaitBetweenAttempts ==
    /\ NumSleeps <= 2
    /\ \A i \in IdxOf({"time.sleep"}) :
          /\ log[i].n = 2
          /\ i > 2
          /\ log[i - 1].ev = "st.warning retrying"
          /\ log[i - 2].ev = "generate GoogleAPIError" /\ log[i - 2].n < 3
    /\ \A i \in IdxOf({"generate GoogleAPIError"}) :
          log[i].n < 3 =>
              /\ Len(log) = i + 1 => pc = "sleep"
              /\ Len(log) >= i + 2 => log[i + 2].ev = "time.sleep"
              /\ Len(log) = i + 2 => pc = "generate"
              /\ Len(log) >= i + 3 =>
                    log[i + 3].ev \in GenerateEvents /\ log[i + 3].n = log[i].n + 1
    /\ \A i \in LogIdx :
          (log[i].ev = "generate ok" \/ (log[i].ev = "generate GoogleAPIError" /\ log[i].n = 3)) =>
              \A j \in LogIdx : j > i => log[j].ev # "time.sleep"
    /\ pc = "sleep" => Len(log) >= 2 /\ log[Len(log) - 1].ev = "generate GoogleAPIError"

C9_Witness == NumSleeps = 2 /\ NumCalls = 3 /\ ui = "DoneSuccess"

\* C10: when attempt k is the first to succeed, exactly k remote calls
\* were made, the k-1 before it failed with GoogleAPIError, the Analyzer
\* returns the text of that response and the fallback does not run; the
\* fallback runs only after attempt 3 has failed.
C10_FirstSuccessEndsLoop ==
    /\ \A i \in IdxOf({"generate ok"}) :
          /\ log[i].n \in 1..3
          /\ NumCalls = log[i].n
          /\ NumApiErrors = log[i].n - 1
          /\ \A j \in IdxOf(GenerateEvents) : j <= i
          /\ analysis = Str(<<log[i].text>>)
          /\ NumFallbacks = 0
          /\ pc \in {"display", "idle"}
    /\ \A j \in IdxOf({"fallback_analysis"}) :
          /\ \E i \in IdxOf({"generate GoogleAPIError"}) : i < j /\ log[i].n = 3
          /\ NumApiErrors = 3
          /\ IdxOf({"generate ok"}) = {}
    /\ pc = "fallback" => NumApiErrors = 3

C10_Witness ==
    /\ ui = "DoneSuccess"
    /\ \E i \in LogIdx : log[i].ev = "generate ok" /\ log[i].n = 2 /\ log[i].text = "r2"
    /\ analysis = Str(<<"r2">>)
    /\ NumCalls = 2

====
